---- MODULE Spec2Model ----
(***************************************************************************)
(* Request orchestration core of nsdotjs: NSScript.makeNsHtmlRequest and   *)
(* NSScript.getNsHtmlPage, the simultaneity gate (isHtmlRequestInProgress) *)
(* and the two session tokens kept in localStorage.                        *)
(*                                                                         *)
(* The JavaScript run-time is a single thread with cooperative suspension: *)
(* every action below is the code that runs between two awaits of one      *)
(* call, or the settling of one promise by the environment.                *)
(***************************************************************************)
EXTENDS Integers, Sequences, FiniteSets, TLC

\* ------------------------------------------------------------------ bounds
\* Total number of calls the callers issue in one behaviour.
MaxCalls == 3

\* ------------------------------------------------------------ value space
\* Two caller slots: each issues one call at a time, the two run interleaved.
Procs == {"a", "b"}

\* localStorage.getItem of a key that was never set.
NULL == "null"

\* Token values a page may embed.
Tokens == {"t1", "t2"}

AuthMarker == [name |-> "#text", value |-> "Failed security check"]
ChallengeMarker == [name |-> "#text", value |-> "Border Patrol"]
SuccessMarker == [name |-> "#text", value |-> "Success!"]

\* A response body is taken as the set of the fragments that occur in it:
\* literal text, or an <input name=... value=...> element carrying a token.
Fragments ==
    {AuthMarker, ChallengeMarker, SuccessMarker,
     [name |-> "chk", value |-> "t2"], [name |-> "localid", value |-> "t2"]}

Texts == SUBSET Fragments

\* Status line of a response; the reason phrase is the server's (empty on HTTP/2).
StatusLines ==
    {[status |-> 200, statusText |-> "OK"],
     [status |-> 404, statusText |-> "Not Found"],
     [status |-> 404, statusText |-> ""],
     [status |-> 500, statusText |-> ""]}

\* A Response: its status line and the body its text() or blob() will read.
ResponsesOf(lines, texts) ==
    {[status |-> l.status, statusText |-> l.statusText, body |-> t] :
        l \in lines, t \in texts}

Responses == ResponsesOf(StatusLines, Texts)

\* The responses two interleaved callers are served: with an ok status a page
\* without tokens, a page with both tokens, a security-check page and a
\* border-patrol page; and a page with a failed status.
InterleavedResponses ==
    ResponsesOf({[status |-> 200, statusText |-> "OK"]},
                {{SuccessMarker},
                 {[name |-> "chk", value |-> "t2"],
                  [name |-> "localid", value |-> "t2"]},
                 {AuthMarker}, {ChallengeMarker}})
    \cup ResponsesOf({[status |-> 404, statusText |-> "Not Found"]},
                     {{SuccessMarker}})

\* pagePath, as the pieces endsWith looks at.
Paths == {<<"page=x">>, <<"cgi-bin/endorse", ".cgi">>}

\* payload, as Object.entries lists it; <<>> is an absent payload.
Payloads == {<<>>, <<<<"a", "1">>>>}

\* Date.now() readings.
Times == {1712}

Functions == {"makeNsHtmlRequest", "getNsHtmlPage"}

NoRequest == [query |-> <<>>, body |-> <<>>, redirect |-> "none"]
NoResponse == [status |-> 0, statusText |-> "", body |-> {}]
NoResult == [tag |-> "pending"]
NoArgs == [fn |-> "none", pagePath |-> <<>>, payload |-> <<>>,
           followRedirects |-> TRUE, shouldUnlockSimul |-> TRUE]
NoTokens == [lastKnownChk |-> NULL, lastKnownLocalid |-> NULL]
NoPage == [returned |-> FALSE, chk |-> NULL, localid |-> NULL,
           before |-> NoTokens]

VARIABLES
    isHtmlRequestInProgress,  \* NSScript.isHtmlRequestInProgress
    localStorage,             \* lastKnownChk, lastKnownLocalid
    pc,                       \* per caller: where its call is suspended
    args,                     \* per caller: the arguments of its call
    userInput,                \* per caller: the promise of userInputHandler()
    request,                  \* per caller: the request handed to fetch
    response,                 \* per caller: the Response fetch resolved with
    result,                   \* per caller: how the call's promise settled
    bodyReads,                \* detached blob()/text() reads not yet settled
    fetches,                  \* per caller: exchanges issued by its call
    ncalls,                   \* calls issued so far
    lastPage,                 \* history: the tokens in the last page getNsHtmlPage
                              \* returned, and localStorage before it was handled
    seenPage,                 \* history, per caller: lastPage when its request was built
    steps,                    \* history, per caller: what getNsHtmlPage did, in
                              \* program order, once its text() had resolved
    callers,                  \* environment: the caller slots in use
    server                    \* environment: the responses the server sends

vars == <<isHtmlRequestInProgress, localStorage, pc, args, userInput, request,
          response, result, bodyReads, fetches, ncalls, lastPage, seenPage,
          steps, callers, server>>

env == <<callers, server>>

\* ------------------------------------------------------- pure helpers
\* String.prototype.includes on a body: the marker occurs somewhere in it.
includes(text, marker) == marker \in text

\* String.prototype.endsWith on a path.
endsWith(pagePath, suffix) ==
    Len(pagePath) > 0 /\ pagePath[Len(pagePath)] = suffix

\* Response.ok: the status is in the range 200-299.
ok(resp) == resp.status >= 200 /\ resp.status <= 299

\* JavaScript truthiness of a string-or-null.
truthy(v) == v # NULL /\ v # ""

\* new Error(message): every failure of the core is a plain Error.
Error(message) == [name |-> "Error", message |-> message]

SimultaneityError == Error(<<"Simultaneity check failed. Please try again.">>)
FetchPageError(resp) == Error(<<"Failed to fetch page: ", resp.statusText>>)
SecurityCheckError ==
    Error(<<"Failed security check. Please run reauth and try again.">>)
BorderPatrolError ==
    Error(<<"You need to solve the border patrol captcha before proceeding.">>)
\* What fetch, a body read or the user-input handler rejects with.
NetworkError == [name |-> "TypeError", message |-> <<"Failed to fetch">>]
InputError == [name |-> "Error", message |-> <<"user input rejected">>]

Resolved(v) == [tag |-> "resolved", value |-> v]
Rejected(e) == [tag |-> "rejected", value |-> e]

\* simultaneity.handleCheck: false while a request is in progress.
handleCheck(inProgress) == ~inProgress

\* simultaneity.handleLock: sets the request-in-progress state.
handleLock == TRUE

\* simultaneity.handleUnlock: clears the request-in-progress state.
handleUnlock == FALSE

\* parseHtml: the document of a body, here its input elements.
parseHtml(text) == {f \in text : f.name # "#text"}

\* The value of the document's input element called name, or NULL.
inputValue(doc, name) ==
    IF \E f \in doc : f.name = name
    THEN (CHOOSE f \in doc : f.name = name).value
    ELSE NULL

\* storeAuth: overwrites each stored token the document carries and keeps
\* the stored value of a token the document does not carry.
storeAuth(ls, doc) ==
    [lastKnownChk |->
        IF inputValue(doc, "chk") # NULL
        THEN inputValue(doc, "chk") ELSE ls.lastKnownChk,
     lastKnownLocalid |->
        IF inputValue(doc, "localid") # NULL
        THEN inputValue(doc, "localid") ELSE ls.lastKnownLocalid]

\* The value of the 'script' query parameter.
scriptParamValue ==
    <<"nsdotjs", " v", "1", " by ", "author", " in use by ", "user">>

\* requestParams with the endsWith test of line 286 left out.
requestParams_AlwaysTemplate(pagePath, now) ==
    <<<<"userclick", ToString(now)>>, <<"script", scriptParamValue>>,
      <<"template-overall", "none">>>>

\* requestParams: userclick, script and, off .cgi paths, template-overall.
requestParams(pagePath, now) ==
    <<<<"userclick", ToString(now)>>, <<"script", scriptParamValue>>>>
    \o (IF ~endsWith(pagePath, ".cgi")
        THEN <<<<"template-overall", "none">>>> ELSE <<>>)

\* payloadParams with the injection of chk left out.
payloadParams_NoChk(payload, ls) ==
    payload
    \o (IF truthy(ls.lastKnownLocalid)
        THEN <<<<"localid", ls.lastKnownLocalid>>>> ELSE <<>>)

\* payloadParams with both appends made unconditional: a key that is not
\* stored is sent with an empty value.
payloadParams_AlwaysAppend(payload, ls) ==
    payload
    \o <<<<"chk", IF truthy(ls.lastKnownChk) THEN ls.lastKnownChk ELSE "">>>>
    \o <<<<"localid", IF truthy(ls.lastKnownLocalid)
                      THEN ls.lastKnownLocalid ELSE "">>>>

\* payloadParams: the caller's fields, then chk and localid when stored.
payloadParams(payload, ls) ==
    payload
    \o (IF truthy(ls.lastKnownChk)
        THEN <<<<"chk", ls.lastKnownChk>>>> ELSE <<>>)
    \o (IF truthy(ls.lastKnownLocalid)
        THEN <<<<"localid", ls.lastKnownLocalid>>>> ELSE <<>>)

\* The init object handed to fetch, with the query of the final URL.
fetchInit(a, ls, now) ==
    [query |-> requestParams(a.pagePath, now),
     body |-> payloadParams(a.payload, ls),
     redirect |-> IF a.followRedirects THEN "follow" ELSE "manual"]

\* ------------------------------------------------------------- Init
Init ==
    /\ isHtmlRequestInProgress = FALSE
    /\ localStorage \in [lastKnownChk : {NULL, "t1"},
                         lastKnownLocalid : {NULL, "t1"}]
    /\ pc = [p \in Procs |-> "idle"]
    /\ args = [p \in Procs |-> NoArgs]
    /\ userInput = [p \in Procs |-> "none"]
    /\ request = [p \in Procs |-> NoRequest]
    /\ response = [p \in Procs |-> NoResponse]
    /\ result = [p \in Procs |-> NoResult]
    /\ bodyReads = 0
    /\ fetches = [p \in Procs |-> 0]
    /\ ncalls = 0
    /\ lastPage = NoPage
    /\ seenPage = [p \in Procs |-> NoPage]
    /\ steps = [p \in Procs |-> <<>>]
    /\ callers = Procs
    /\ server = InterleavedResponses

\* One caller issuing its calls in sequence, served every response.
InitSeq ==
    /\ isHtmlRequestInProgress = FALSE
    /\ localStorage \in [lastKnownChk : {NULL, "t1"},
                         lastKnownLocalid : {NULL, "t1"}]
    /\ pc = [p \in Procs |-> "idle"]
    /\ args = [p \in Procs |-> NoArgs]
    /\ userInput = [p \in Procs |-> "none"]
    /\ request = [p \in Procs |-> NoRequest]
    /\ response = [p \in Procs |-> NoResponse]
    /\ result = [p \in Procs |-> NoResult]
    /\ bodyReads = 0
    /\ fetches = [p \in Procs |-> 0]
    /\ ncalls = 0
    /\ lastPage = NoPage
    /\ seenPage = [p \in Procs |-> NoPage]
    /\ steps = [p \in Procs |-> <<>>]
    /\ callers = {"a"}
    /\ server = Responses

\* ---------------------------------------------------------- actions
\* pageResult with the two marker tests in the other order.
pageResult_ChallengeFirst(text) ==
    IF includes(text, ChallengeMarker) THEN Rejected(BorderPatrolError)
    ELSE IF includes(text, AuthMarker) THEN Rejected(SecurityCheckError)
    ELSE Resolved(text)

\* What getNsHtmlPage settles with once the body text is read (lines 359-371).
pageResult(text) ==
    IF includes(text, AuthMarker) THEN Rejected(SecurityCheckError)
    ELSE IF includes(text, ChallengeMarker) THEN Rejected(BorderPatrolError)
    ELSE Resolved(text)

\* pageStorage with storeAuth run on every page, before the marker tests.
pageStorage_Always(ls, text) == storeAuth(ls, parseHtml(text))

\* pageStorage writing both keys from the document, present or not.
pageStorage_Overwrite(ls, text) ==
    IF pageResult(text).tag = "resolved"
    THEN [lastKnownChk |-> inputValue(parseHtml(text), "chk"),
          lastKnownLocalid |-> inputValue(parseHtml(text), "localid")]
    ELSE ls

\* localStorage after getNsHtmlPage has handled the body text: storeAuth runs
\* only when neither marker made the call throw first (lines 359-370).
pageStorage(ls, text) ==
    IF pageResult(text).tag = "resolved"
    THEN storeAuth(ls, parseHtml(text)) ELSE ls

\* pageSteps with the unlock moved behind storeAuth.
pageSteps_UnlockLast(text) ==
    <<"text", "includes:Failed security check">>
    \o (IF includes(text, AuthMarker) THEN <<"handleUnlock", "throw">>
        ELSE <<"includes:Border Patrol">>
             \o (IF includes(text, ChallengeMarker)
                 THEN <<"handleUnlock", "throw">>
                 ELSE <<"parseHtml", "storeAuth", "handleUnlock", "return">>))

\* pageSteps with parseHtml and storeAuth moved ahead of the marker tests.
pageSteps_StoreFirst(text) ==
    <<"text", "handleUnlock", "parseHtml", "storeAuth",
      "includes:Failed security check">>
    \o (IF includes(text, AuthMarker) THEN <<"throw">>
        ELSE <<"includes:Border Patrol">>
             \o (IF includes(text, ChallengeMarker) THEN <<"throw">>
                 ELSE <<"return">>))

\* The statements getNsHtmlPage runs once text() has resolved, in program
\* order: the unlock of line 357, the marker tests of lines 359 and 364 with
\* their throws, then parseHtml, storeAuth and the return of lines 369-371.
pageSteps(text) ==
    <<"text", "handleUnlock", "includes:Failed security check">>
    \o (IF includes(text, AuthMarker) THEN <<"throw">>
        ELSE <<"includes:Border Patrol">>
             \o (IF includes(text, ChallengeMarker) THEN <<"throw">>
                 ELSE <<"parseHtml", "storeAuth", "return">>))

\* The arguments makeNsHtmlRequest runs with; getNsHtmlPage passes
\* followRedirects = true and shouldUnlockSimul = false (line 343).
callArgs(fn, pagePath, payload, followRedirects) ==
    [fn |-> fn, pagePath |-> pagePath, payload |-> payload,
     followRedirects |-> IF fn = "getNsHtmlPage" THEN TRUE ELSE followRedirects,
     shouldUnlockSimul |-> fn # "getNsHtmlPage"]

\* Call with the request sent before userInputHandler() is awaited.
Call_NoWait(p, fn, pagePath, payload, followRedirects) ==
    /\ pc[p] = "idle"
    /\ ncalls < MaxCalls
    /\ ncalls' = ncalls + 1
    /\ fetches' = [fetches EXCEPT ![p] = IF handleCheck(isHtmlRequestInProgress)
                                         THEN 1 ELSE 0]
    /\ args' = [args EXCEPT ![p] =
                  [callArgs(fn, pagePath, payload, followRedirects)
                      EXCEPT !.pagePath = <<>>, !.payload = <<>>]]
    /\ IF ~handleCheck(isHtmlRequestInProgress)
       THEN /\ pc' = [pc EXCEPT ![p] = "settled"]
            /\ result' = [result EXCEPT ![p] = Rejected(SimultaneityError)]
            /\ userInput' = [userInput EXCEPT ![p] = "none"]
            /\ UNCHANGED <<isHtmlRequestInProgress, request, seenPage>>
       ELSE /\ pc' = [pc EXCEPT ![p] = "fetching"]
            /\ result' = [result EXCEPT ![p] = NoResult]
            /\ userInput' = [userInput EXCEPT ![p] = "pending"]
            /\ isHtmlRequestInProgress' = handleLock
            /\ request' = [request EXCEPT ![p] =
                  fetchInit(callArgs(fn, pagePath, payload, followRedirects),
                            localStorage, CHOOSE now \in Times : TRUE)]
            /\ seenPage' = [seenPage EXCEPT ![p] = lastPage]
    /\ UNCHANGED <<localStorage, response, bodyReads, lastPage, steps, env>>

\* Call with the rejected branch clearing the flag on its way out.
Call_RejectUnlocks(p, fn, pagePath, payload, followRedirects) ==
    /\ pc[p] = "idle"
    /\ ncalls < MaxCalls
    /\ ncalls' = ncalls + 1
    /\ args' = [args EXCEPT ![p] = callArgs(fn, pagePath, payload, followRedirects)]
    /\ fetches' = [fetches EXCEPT ![p] = 0]
    /\ IF ~handleCheck(isHtmlRequestInProgress)
       THEN /\ pc' = [pc EXCEPT ![p] = "settled"]
            /\ result' = [result EXCEPT ![p] = Rejected(SimultaneityError)]
            /\ userInput' = [userInput EXCEPT ![p] = "none"]
            /\ isHtmlRequestInProgress' = handleUnlock
       ELSE /\ pc' = [pc EXCEPT ![p] = "awaitInput"]
            /\ result' = [result EXCEPT ![p] = NoResult]
            /\ userInput' = [userInput EXCEPT ![p] = "pending"]
            /\ UNCHANGED isHtmlRequestInProgress
    /\ UNCHANGED <<localStorage, request, response, bodyReads, lastPage,
                   seenPage, steps, env>>

\* A caller starts a call: makeNsHtmlRequest runs to its first await. The
\* simultaneity check either rejects the call or lets it wait for the user.
Call(p, fn, pagePath, payload, followRedirects) ==
    /\ pc[p] = "idle"
    /\ ncalls < MaxCalls
    /\ ncalls' = ncalls + 1
    /\ args' = [args EXCEPT ![p] = callArgs(fn, pagePath, payload, followRedirects)]
    /\ fetches' = [fetches EXCEPT ![p] = 0]
    /\ IF ~handleCheck(isHtmlRequestInProgress)
       THEN /\ pc' = [pc EXCEPT ![p] = "settled"]
            /\ result' = [result EXCEPT ![p] = Rejected(SimultaneityError)]
            /\ userInput' = [userInput EXCEPT ![p] = "none"]
       ELSE /\ pc' = [pc EXCEPT ![p] = "awaitInput"]
            /\ result' = [result EXCEPT ![p] = NoResult]
            /\ userInput' = [userInput EXCEPT ![p] = "pending"]
    /\ UNCHANGED <<isHtmlRequestInProgress, localStorage, request, response,
                   bodyReads, lastPage, seenPage, steps, env>>

\* userInputHandler() resolves: the call locks the gate, builds the request
\* and hands it to fetch (lines 264-313). pagePath and payload are not read
\* again once the request is built.
InputResolves(p, now) ==
    /\ pc[p] = "awaitInput"
    /\ userInput' = [userInput EXCEPT ![p] = "resolved"]
    /\ isHtmlRequestInProgress' = handleLock
    /\ request' = [request EXCEPT ![p] = fetchInit(args[p], localStorage, now)]
    /\ args' = [args EXCEPT ![p].pagePath = <<>>, ![p].payload = <<>>]
    /\ fetches' = [fetches EXCEPT ![p] = @ + 1]
    /\ seenPage' = [seenPage EXCEPT ![p] = lastPage]
    /\ pc' = [pc EXCEPT ![p] = "fetching"]
    /\ UNCHANGED <<localStorage, response, result, bodyReads, ncalls,
                   lastPage, steps, env>>

\* userInputHandler() rejects: the await at line 263 throws outside the try.
InputRejects(p) ==
    /\ pc[p] = "awaitInput"
    /\ userInput' = [userInput EXCEPT ![p] = "rejected"]
    /\ result' = [result EXCEPT ![p] = Rejected(InputError)]
    /\ pc' = [pc EXCEPT ![p] = "settled"]
    /\ UNCHANGED <<isHtmlRequestInProgress, localStorage, args, request,
                   response, bodyReads, fetches, ncalls, lastPage, seenPage, steps, env>>

\* fetch resolves with a Response. makeNsHtmlRequest starts the detached
\* blob() read when it is to unlock, and returns (lines 315-324); a call of
\* getNsHtmlPage goes on to line 344: a status that is not ok starts a
\* detached text() read and throws, an ok status awaits text().
FetchResolves(p, resp) ==
    /\ pc[p] = "fetching"
    /\ response' = [response EXCEPT ![p] = resp]
    /\ request' = [request EXCEPT ![p] = NoRequest]
    /\ IF args[p].fn = "makeNsHtmlRequest"
       THEN /\ bodyReads' = IF args[p].shouldUnlockSimul
                            THEN bodyReads + 1 ELSE bodyReads
            /\ result' = [result EXCEPT ![p] = Resolved(resp)]
            /\ pc' = [pc EXCEPT ![p] = "settled"]
       ELSE IF ~ok(resp)
       THEN /\ bodyReads' = bodyReads + 1
            /\ result' = [result EXCEPT ![p] = Rejected(FetchPageError(resp))]
            /\ pc' = [pc EXCEPT ![p] = "settled"]
       ELSE /\ bodyReads' = bodyReads
            /\ result' = result
            /\ pc' = [pc EXCEPT ![p] = "readingText"]
    /\ UNCHANGED <<isHtmlRequestInProgress, localStorage, args, userInput,
                   fetches, ncalls, lastPage, seenPage, steps, env>>

\* FetchRejects with the exchange issued again instead of the rethrow.
FetchRejects_Retry(p) ==
    /\ pc[p] = "fetching"
    /\ fetches' = [fetches EXCEPT ![p] = @ + 1]
    /\ UNCHANGED <<isHtmlRequestInProgress, localStorage, pc, args, userInput,
                   request, response, result, bodyReads, ncalls, lastPage,
                   seenPage, steps, env>>

\* fetch rejects: the catch block unlocks and rethrows (lines 325-328).
FetchRejects(p) ==
    /\ pc[p] = "fetching"
    /\ isHtmlRequestInProgress' = handleUnlock
    /\ request' = [request EXCEPT ![p] = NoRequest]
    /\ result' = [result EXCEPT ![p] = Rejected(NetworkError)]
    /\ pc' = [pc EXCEPT ![p] = "settled"]
    /\ UNCHANGED <<localStorage, args, userInput, response, bodyReads,
                   fetches, ncalls, lastPage, seenPage, steps, env>>

\* TextResolves with the handleUnlock call of line 357 left out.
TextResolves_NoUnlock(p) ==
    /\ pc[p] = "readingText"
    /\ result' = [result EXCEPT ![p] = pageResult(response[p].body)]
    /\ localStorage' = pageStorage(localStorage, response[p].body)
    /\ lastPage' =
         IF pageResult(response[p].body).tag = "resolved"
         THEN [returned |-> TRUE,
               chk |-> inputValue(parseHtml(response[p].body), "chk"),
               localid |-> inputValue(parseHtml(response[p].body), "localid"),
               before |-> localStorage]
         ELSE lastPage
    /\ steps' = [steps EXCEPT ![p] = pageSteps(response[p].body)]
    /\ pc' = [pc EXCEPT ![p] = "settled"]
    /\ UNCHANGED <<isHtmlRequestInProgress, args, userInput, request,
                   response, bodyReads, fetches, ncalls, seenPage, env>>

\* response.text() resolves in getNsHtmlPage: unlock, look for the two
\* markers, store the tokens and return the text (lines 353-371).
TextResolves(p) ==
    /\ pc[p] = "readingText"
    /\ isHtmlRequestInProgress' = handleUnlock
    /\ result' = [result EXCEPT ![p] = pageResult(response[p].body)]
    /\ localStorage' = pageStorage(localStorage, response[p].body)
    /\ lastPage' =
         IF pageResult(response[p].body).tag = "resolved"
         THEN [returned |-> TRUE,
               chk |-> inputValue(parseHtml(response[p].body), "chk"),
               localid |-> inputValue(parseHtml(response[p].body), "localid"),
               before |-> localStorage]
         ELSE lastPage
    /\ steps' = [steps EXCEPT ![p] = pageSteps(response[p].body)]
    /\ pc' = [pc EXCEPT ![p] = "settled"]
    /\ UNCHANGED <<args, userInput, request, response, bodyReads, fetches,
                   ncalls, seenPage, env>>

\* response.text() rejects in getNsHtmlPage: the await at line 353 throws.
TextRejects(p) ==
    /\ pc[p] = "readingText"
    /\ result' = [result EXCEPT ![p] = Rejected(NetworkError)]
    /\ pc' = [pc EXCEPT ![p] = "settled"]
    /\ UNCHANGED <<isHtmlRequestInProgress, localStorage, args, userInput,
                   request, response, bodyReads, fetches, ncalls, lastPage,
                   seenPage, steps, env>>

\* A detached blob() or text() read resolves: its then-callback unlocks
\* (lines 319-321 and 347-349).
BodyReadResolves ==
    /\ bodyReads > 0
    /\ bodyReads' = bodyReads - 1
    /\ isHtmlRequestInProgress' = handleUnlock
    /\ UNCHANGED <<localStorage, pc, args, userInput, request, response,
                   result, fetches, ncalls, lastPage, seenPage, steps, env>>

\* A detached blob() or text() read rejects: there is no rejection handler.
BodyReadRejects ==
    /\ bodyReads > 0
    /\ bodyReads' = bodyReads - 1
    /\ UNCHANGED <<isHtmlRequestInProgress, localStorage, pc, args, userInput,
                   request, response, result, fetches, ncalls, lastPage,
                   seenPage, steps, env>>

\* The caller takes the settled promise's outcome and is free to call again.
Resume(p) ==
    /\ pc[p] = "settled"
    /\ pc' = [pc EXCEPT ![p] = "idle"]
    /\ args' = [args EXCEPT ![p] = NoArgs]
    /\ userInput' = [userInput EXCEPT ![p] = "none"]
    /\ response' = [response EXCEPT ![p] = NoResponse]
    /\ result' = [result EXCEPT ![p] = NoResult]
    /\ fetches' = [fetches EXCEPT ![p] = 0]
    /\ seenPage' = [seenPage EXCEPT ![p] = NoPage]
    /\ steps' = [steps EXCEPT ![p] = <<>>]
    /\ UNCHANGED <<isHtmlRequestInProgress, localStorage, request, bodyReads,
                   ncalls, lastPage, env>>

Next ==
    \/ \E p \in callers, fn \in Functions, pagePath \in Paths,
          payload \in Payloads, followRedirects \in BOOLEAN :
            /\ fn = "getNsHtmlPage" => followRedirects
            /\ Call(p, fn, pagePath, payload, followRedirects)
    \/ \E p \in callers, now \in Times : InputResolves(p, now)
    \/ \E p \in callers : InputRejects(p)
    \/ \E p \in callers, resp \in server : FetchResolves(p, resp)
    \/ \E p \in callers : FetchRejects(p)
    \/ \E p \in callers : TextResolves(p)
    \/ \E p \in callers : TextRejects(p)
    \/ BodyReadResolves
    \/ BodyReadRejects
    \/ \E p \in callers : Resume(p)

Spec == Init /\ [][Next]_vars

SpecSeq == InitSeq /\ [][Next]_vars

\* handleMove, given how its awaited getNsHtmlPage call settled: the await
\* is in no try block, so a rejection is handleMove's own rejection; a text
\* gives true when it includes "Success!" and false otherwise.
handleMove(page) ==
    IF page.tag = "rejected" THEN Rejected(page.value)
    ELSE Resolved(includes(page.value, SuccessMarker))

\* ------------------------------------------------------------ claims
\* A call that has passed the simultaneity check and has not settled.
Outstanding(q) == pc[q] \in {"awaitInput", "fetching", "readingText"}

\* C1: a call issued while another call has not yet released the gate, also
\* while that call still waits for the user, is rejected with the
\* simultaneity error.
C1_SecondCallRejected ==
    [][\A p \in Procs :
         (/\ pc[p] = "idle"
          /\ pc'[p] # "idle"
          /\ \E q \in Procs \ {p} : Outstanding(q))
         => (/\ pc'[p] = "settled"
             /\ result'[p] = Rejected(SimultaneityError))]_vars

\* The operations between issuing their exchange and the end of the read of
\* the response body: calls awaiting fetch or text(), and detached reads.
InFlight ==
    Cardinality({p \in Procs : pc[p] \in {"fetching", "readingText"}})
    + bodyReads

\* C2: in every reachable state at most one operation is between issuing its
\* network exchange and finishing the consumption of the response body.
C2_AtMostOneInFlight == InFlight <= 1

\* Caller p's call settles in this step, after it had issued its exchange.
Settles(p) == pc[p] # "settled" /\ pc'[p] = "settled" /\ fetches'[p] > 0

\* C3: when makeNsHtmlRequest, called with shouldUnlockSimul = true, returns
\* or throws, the gate is already released.
C3_RawReleasedAtReturn ==
    [][\A p \in Procs :
         (/\ Settles(p)
          /\ args'[p].fn = "makeNsHtmlRequest"
          /\ args'[p].shouldUnlockSimul)
         => ~isHtmlRequestInProgress']_vars

\* C4: on every exit path of getNsHtmlPage the gate flag is false at the
\* moment the call settles.
C4_PageReleasedAtSettle ==
    [][\A p \in Procs :
         (Settles(p) /\ args'[p].fn = "getNsHtmlPage")
         => ~isHtmlRequestInProgress']_vars

\* Nothing is left to run: every call has settled and every detached body
\* read has resolved or rejected.
Quiescent ==
    /\ \A p \in Procs : pc[p] \in {"idle", "settled"}
    /\ bodyReads = 0

\* C5: once the exchange and the body reads of every call have completed,
\* with success or with failure, the gate is back to not-in-flight.
C5_NoLeakedLock == Quiescent => ~isHtmlRequestInProgress

\* The values of the fields called name in a form body.
fieldValues(body, name) ==
    {body[i][2] : i \in {j \in 1..Len(body) : body[j][1] = name}}

\* C6: after getNsHtmlPage has returned a page whose document carries chk=X
\* and localid=Y, localStorage holds X and Y, and the form body of the next
\* request built carries chk=X and localid=Y. lastPage is the last page
\* returned: the next request is one built before any later page is returned.
C6_TokenPropagation ==
    /\ (lastPage.returned /\ lastPage.chk # NULL /\ lastPage.localid # NULL)
       => /\ localStorage.lastKnownChk = lastPage.chk
          /\ localStorage.lastKnownLocalid = lastPage.localid
    /\ \A p \in Procs :
         (/\ pc[p] = "fetching"
          /\ seenPage[p].returned
          /\ seenPage[p].chk # NULL
          /\ seenPage[p].localid # NULL)
         => /\ seenPage[p].chk \in fieldValues(request[p].body, "chk")
            /\ seenPage[p].localid \in fieldValues(request[p].body, "localid")

C6_Witness ==
    \E p \in Procs :
        /\ pc[p] = "fetching"
        /\ seenPage[p].returned
        /\ seenPage[p].chk = "t2"
        /\ seenPage[p].localid = "t2"
        /\ seenPage[p].before.lastKnownChk # "t2"
        /\ fieldValues(request[p].body, "chk") = {"t2"}

\* The token values a form body has to carry for the stored pair ls.
carried(v) == IF v = NULL THEN {} ELSE {v}

\* C7: after getNsHtmlPage has returned a page whose document carries no token
\* field, localStorage is what it was before, and the next request built
\* carries the chk and localid values stored before.
C7_SilentPageKeepsTokens ==
    /\ (lastPage.returned /\ lastPage.chk = NULL /\ lastPage.localid = NULL)
       => localStorage = lastPage.before
    /\ \A p \in Procs :
         (/\ pc[p] = "fetching"
          /\ seenPage[p].returned
          /\ seenPage[p].chk = NULL
          /\ seenPage[p].localid = NULL)
         => /\ fieldValues(request[p].body, "chk")
                 = carried(seenPage[p].before.lastKnownChk)
            /\ fieldValues(request[p].body, "localid")
                 = carried(seenPage[p].before.lastKnownLocalid)

C7_Witness ==
    \E p \in Procs :
        /\ pc[p] = "fetching"
        /\ seenPage[p].returned
        /\ seenPage[p].chk = NULL
        /\ seenPage[p].localid = NULL
        /\ seenPage[p].before.lastKnownChk = "t2"
        /\ fieldValues(request[p].body, "chk") = {"t2"}

\* Caller p's call of getNsHtmlPage has settled after its exchange completed
\* and, on an ok status, its body was read.
PageCompleted(p) ==
    /\ pc[p] = "settled"
    /\ args[p].fn = "getNsHtmlPage"
    /\ response[p] # NoResponse
    /\ ~(result[p].tag = "rejected" /\ result[p].value = NetworkError)

\* How the settled call of caller p was classified, read off its outcome.
Classified(p) ==
    IF result[p].tag = "resolved" THEN "Success"
    ELSE IF result[p].value = FetchPageError(response[p])
         THEN "TransportFailure"
    ELSE IF result[p].value = SecurityCheckError THEN "AuthenticationFailure"
    ELSE IF result[p].value = BorderPatrolError THEN "ChallengeRequired"
    ELSE "none"

\* C8: a status that is not 2xx yields TransportFailure whatever the body;
\* otherwise the authentication marker yields AuthenticationFailure, also
\* when the challenge marker is present; otherwise the challenge marker
\* yields ChallengeRequired; otherwise the outcome is Success.
C8_ClassificationPrecedence ==
    \A p \in Procs :
        PageCompleted(p) =>
            LET twoxx == response[p].status \in 200..299
                auth == AuthMarker \in response[p].body
                challenge == ChallengeMarker \in response[p].body
            IN  /\ ~twoxx => Classified(p) = "TransportFailure"
                /\ (twoxx /\ auth) => Classified(p) = "AuthenticationFailure"
                /\ (twoxx /\ ~auth /\ challenge)
                   => Classified(p) = "ChallengeRequired"
                /\ (twoxx /\ ~auth /\ ~challenge) => Classified(p) = "Success"

C8_Witness ==
    \E p \in Procs :
        /\ PageCompleted(p)
        /\ response[p].status = 200
        /\ AuthMarker \in response[p].body
        /\ ChallengeMarker \in response[p].body
        /\ Classified(p) = "AuthenticationFailure"

\* C9: an exchange is issued only after the call's userInputHandler() promise
\* has resolved.
C9_ExchangeAfterReadiness ==
    \A p \in Procs :
        (pc[p] = "fetching" \/ fetches[p] > 0) => userInput[p] = "resolved"

C9_Witness ==
    \E p \in Procs :
        /\ pc[p] = "fetching"
        /\ fetches[p] = 1
        /\ userInput[p] = "resolved"
        /\ request[p] # NoRequest

\* The failure class of the settled call of caller p, by the path it took.
FailureClass(p) ==
    IF pc[p] # "settled" \/ result[p].tag # "rejected" THEN "none"
    ELSE IF userInput[p] = "none" THEN "Concurrency"
    ELSE IF ~PageCompleted(p) THEN "none"
    ELSE IF ~(response[p].status \in 200..299) THEN "Transport"
    ELSE IF AuthMarker \in response[p].body THEN "Authentication"
    ELSE "Challenge"

\* C10: getNsHtmlPage maps a completed exchange to one outcome: a transport
\* error carrying the status, an authentication error, a challenge error, or
\* the decoded text; these failures and the concurrency failure are pairwise
\* distinguishable by the kind of the error.
C10_OutcomesDistinctByKind ==
    /\ \A p \in Procs :
         PageCompleted(p) =>
            /\ Classified(p) = "Success"
               => result[p] = Resolved(response[p].body)
            /\ Classified(p) # "Success" => result[p].tag = "rejected"
            /\ Classified(p) = "TransportFailure"
               => /\ "status" \in DOMAIN result[p].value
                  /\ result[p].value.status = response[p].status
    /\ \A p, q \in Procs :
         (/\ FailureClass(p) # "none"
          /\ FailureClass(q) # "none"
          /\ FailureClass(p) # FailureClass(q))
         => result[p].value.name # result[q].value.name

\* Caller p's call is rejected by the simultaneity check in this step.
RejectedNow(p) ==
    /\ pc[p] = "idle"
    /\ pc'[p] = "settled"
    /\ result'[p].tag = "rejected"
    /\ result'[p].value = SimultaneityError

\* C11: a call rejected by the simultaneity check fails at once: it does not
\* wait for the user, issues no exchange and starts no body read, and leaves
\* the gate flag and the stored tokens as they were.
C11_RejectedCallTouchesNothing ==
    [][\A p \in Procs :
         RejectedNow(p) =>
            /\ userInput'[p] = "none"
            /\ fetches'[p] = 0
            /\ request' = request
            /\ bodyReads' = bodyReads
            /\ isHtmlRequestInProgress' = isHtmlRequestInProgress
            /\ localStorage' = localStorage]_vars

C11_Witness ==
    \E p \in Procs :
        /\ pc[p] = "settled"
        /\ result[p].tag = "rejected"
        /\ result[p].value = SimultaneityError
        /\ userInput[p] = "none"
        /\ fetches[p] = 0
        /\ isHtmlRequestInProgress
        /\ localStorage.lastKnownChk = "t2"

\* C12: one call of makeNsHtmlRequest or getNsHtmlPage issues at most one
\* exchange, whatever its outcome.
C12_NoInternalRetry == \A p \in Procs : fetches[p] <= 1

C12_Witness ==
    \E p, q \in Procs :
        /\ pc[p] = "settled"
        /\ fetches[p] = 1
        /\ result[p].tag = "rejected"
        /\ result[p].value = NetworkError
        /\ response[p] = NoResponse
        /\ pc[q] = "settled"
        /\ fetches[q] = 1
        /\ result[q].tag = "rejected"
        /\ result[q].value = SecurityCheckError

\* C13: a per-action handler's promise resolves to a boolean for every
\* outcome of its request: true when the success marker is in the response,
\* false otherwise, also after a rejected gate, a status that is not 2xx, an
\* authentication failure or a challenge page.
C13_HandlerResolvesBoolean ==
    \A p \in Procs :
        (/\ pc[p] = "settled"
         /\ args[p].fn = "getNsHtmlPage"
         /\ userInput[p] # "rejected") =>
            /\ handleMove(result[p]).tag = "resolved"
            /\ handleMove(result[p]).value
                 = (/\ response[p].status \in 200..299
                    /\ SuccessMarker \in response[p].body)

\* C14: whenever a call is suspended in userInputHandler(), the gate flag is
\* already in the in-flight state.
C14_GateHeldWhileWaiting ==
    \A p \in Procs : pc[p] = "awaitInput" => isHtmlRequestInProgress

\* x occurs in the sequence, and so does y somewhere behind it.
Before(seq, x, y) ==
    \E i, j \in 1..Len(seq) : i < j /\ seq[i] = x /\ seq[j] = y

Occurs(seq, x) == \E i \in 1..Len(seq) : seq[i] = x

\* Caller p's call of getNsHtmlPage returns its text in this step.
PageReturnsNow(p) ==
    /\ pc[p] = "readingText"
    /\ pc'[p] = "settled"
    /\ result'[p].tag = "resolved"

\* C15, as claimed: on the success path of getNsHtmlPage the gate is released
\* only after the token-store update has completed.
C15_ReleaseAfterUpdate ==
    \A p \in Procs :
        (pc[p] = "settled" /\ Occurs(steps[p], "return"))
        => Before(steps[p], "storeAuth", "handleUnlock")

\* C15, amended: on the success path getNsHtmlPage releases the gate before
\* it updates the token store, both in the one uninterrupted continuation
\* that returns the text: the step that returns the page leaves the gate
\* released and every token of the page stored.
C15_ReleaseAndUpdateTogether ==
    [][\A p \in Procs :
         PageReturnsNow(p) =>
            /\ Before(steps'[p], "handleUnlock", "storeAuth")
            /\ Before(steps'[p], "storeAuth", "return")
            /\ ~isHtmlRequestInProgress'
            /\ \A f \in parseHtml(response[p].body) :
                 /\ f.name = "chk" => localStorage'.lastKnownChk = f.value
                 /\ f.name = "localid"
                    => localStorage'.lastKnownLocalid = f.value]_vars

C15_Witness ==
    \E p \in Procs :
        /\ pc[p] = "settled"
        /\ args[p].fn = "getNsHtmlPage"
        /\ result[p].tag = "resolved"
        /\ [name |-> "chk", value |-> "t2"] \in response[p].body
        /\ Before(steps[p], "handleUnlock", "storeAuth")
        /\ lastPage.before.lastKnownChk # "t2"
        /\ localStorage.lastKnownChk = "t2"
        /\ ~isHtmlRequestInProgress

\* C16: the stored token pair changes only in a step in which a call of
\* getNsHtmlPage returns its text: makeNsHtmlRequest alone, a rejected call
\* and a getNsHtmlPage call that fails leave it unchanged.
C16_TokensChangeOnlyOnSuccess ==
    [][localStorage' # localStorage
       => \E p \in Procs :
            PageReturnsNow(p) /\ args[p].fn = "getNsHtmlPage"]_vars

C16_Witness ==
    \E p \in Procs :
        /\ PageCompleted(p)
        /\ Classified(p) = "ChallengeRequired"
        /\ [name |-> "chk", value |-> "t2"] \in response[p].body
        /\ localStorage.lastKnownChk = "t1"
        /\ lastPage.returned
        /\ lastPage.chk = NULL

\* C17, as claimed: once the body is decoded, storeAuth is invoked on the
\* parsed document and only then is the body tested for the two markers.
C17_UpdateBeforeClassification ==
    \A p \in Procs :
        (pc[p] = "settled" /\ steps[p] # <<>>) =>
            /\ Before(steps[p], "text", "storeAuth")
            /\ Before(steps[p], "storeAuth", "includes:Failed security check")

\* C17, amended: once the body is decoded it is tested for the
\* authentication marker, then for the challenge marker, and only when
\* neither is present is the document parsed and storeAuth invoked; a page
\* that makes the call throw never reaches storeAuth.
C17_ClassificationBeforeUpdate ==
    \A p \in Procs :
        (pc[p] = "settled" /\ steps[p] # <<>>) =>
            /\ steps[p][1] = "text"
            /\ Before(steps[p], "text", "includes:Failed security check")
            /\ Occurs(steps[p], "storeAuth") =>
                 /\ Before(steps[p], "includes:Failed security check",
                           "includes:Border Patrol")
                 /\ Before(steps[p], "includes:Border Patrol", "parseHtml")
                 /\ Before(steps[p], "parseHtml", "storeAuth")
                 /\ result[p].tag = "resolved"
            /\ result[p].tag = "rejected" => ~Occurs(steps[p], "storeAuth")
            /\ result[p].tag = "resolved" => Occurs(steps[p], "storeAuth")

C17_Witness ==
    \E p \in Procs :
        /\ pc[p] = "settled"
        /\ result[p].tag = "rejected"
        /\ result[p].value = SecurityCheckError
        /\ [name |-> "localid", value |-> "t2"] \in response[p].body
        /\ steps[p] = <<"text", "handleUnlock",
                        "includes:Failed security check", "throw">>
        /\ localStorage.lastKnownLocalid # "t2"

\* C18: in the step in which a call of getNsHtmlPage returns its decoded
\* text, the gate flag is false.
C18_NoTextWhileGateHeld ==
    [][\A p \in Procs :
         (PageReturnsNow(p) /\ args[p].fn = "getNsHtmlPage")
         => ~isHtmlRequestInProgress']_vars

C18_Witness ==
    \E p \in Procs :
        /\ pc[p] = "settled"
        /\ args[p].fn = "getNsHtmlPage"
        /\ result[p].tag = "resolved"
        /\ SuccessMarker \in result[p].value
        /\ Occurs(steps[p], "return")
        /\ ~isHtmlRequestInProgress
        /\ \A q \in Procs \ {p} : pc[q] = "idle"

TokenNames == {"chk", "localid"}

\* C19: in the form body of every request handed to fetch, the chk and
\* localid fields stand ahead of every other field, chk ahead of localid.
C19_TokensAheadOfCallerFields ==
    \A p \in Procs :
        pc[p] = "fetching" =>
            \A i, j \in 1..Len(request[p].body) :
                /\ (/\ request[p].body[i][1] \in TokenNames
                    /\ request[p].body[j][1] \notin TokenNames) => i < j
                /\ (/\ request[p].body[i][1] = "chk"
                    /\ request[p].body[j][1] = "localid") => i < j

\* The number of fields of the body that carry the name.
fieldCount(body, name) ==
    Cardinality({i \in 1..Len(body) : body[i][1] = name})

\* Caller p's request is built and handed to fetch in this step.
BuildsRequestNow(p) == pc[p] = "awaitInput" /\ pc'[p] = "fetching"

\* C20: the form body of a request, as built, carries one chk field with the
\* stored value when lastKnownChk is stored and no chk field when it is not;
\* the same holds of localid, independently; no such field is empty-valued.
C20_AbsentTokensOmitted ==
    [][\A p \in Procs :
         BuildsRequestNow(p) =>
            /\ fieldValues(request'[p].body, "chk")
                 = carried(localStorage.lastKnownChk)
            /\ fieldCount(request'[p].body, "chk")
                 = Cardinality(carried(localStorage.lastKnownChk))
            /\ fieldValues(request'[p].body, "localid")
                 = carried(localStorage.lastKnownLocalid)
            /\ fieldCount(request'[p].body, "localid")
                 = Cardinality(carried(localStorage.lastKnownLocalid))
            /\ \A i \in 1..Len(request'[p].body) :
                 request'[p].body[i][2] # ""]_vars

C20_Witness ==
    \E p \in Procs :
        /\ pc[p] = "fetching"
        /\ localStorage.lastKnownChk = NULL
        /\ localStorage.lastKnownLocalid = "t1"
        /\ fieldCount(request[p].body, "chk") = 0
        /\ fieldValues(request[p].body, "localid") = {"t1"}
        /\ Len(request[p].body) = 2

\* C21: the query of a request, as built, carries one userclick parameter
\* with the time of the build, one script parameter with the identification
\* of the script, and one template-overall=none parameter when the path does
\* not end with ".cgi" and none when it does.
C21_QueryParameters ==
    [][\A p \in Procs :
         BuildsRequestNow(p) =>
            /\ fieldCount(request'[p].query, "userclick") = 1
            /\ fieldValues(request'[p].query, "userclick")
                 \subseteq {ToString(t) : t \in Times}
            /\ fieldValues(request'[p].query, "script") = {scriptParamValue}
            /\ fieldCount(request'[p].query, "script") = 1
            /\ fieldCount(request'[p].query, "template-overall")
                 = IF args[p].pagePath[Len(args[p].pagePath)] = ".cgi"
                   THEN 0 ELSE 1
            /\ fieldValues(request'[p].query, "template-overall")
                 \subseteq {"none"}]_vars

C21_Witness ==
    \E p \in Procs :
        /\ pc[p] = "fetching"
        /\ fieldCount(request[p].query, "userclick") = 1
        /\ fieldCount(request[p].query, "script") = 1
        /\ fieldCount(request[p].query, "template-overall") = 0
        /\ Len(request[p].query) = 2

\* C22: whenever the gate flag is false, no call has an exchange or a body
\* read outstanding.
C22_NoStaleRelease ==
    ~isHtmlRequestInProgress =>
        /\ \A p \in Procs : pc[p] \notin {"fetching", "readingText"}
        /\ bodyReads = 0

\* Caller p's call fails in this step because userInputHandler rejected.
ReadinessFailsNow(p) ==
    /\ pc[p] = "awaitInput"
    /\ pc'[p] = "settled"
    /\ userInput'[p] = "rejected"

\* C23: when userInputHandler rejects, the call settles with no exchange
\* issued, the gate flag false and the stored tokens unchanged.
C23_ReadinessFailureClean ==
    [][\A p \in Procs :
         ReadinessFailsNow(p) =>
            /\ result'[p].tag = "rejected"
            /\ fetches'[p] = 0
            /\ request'[p] = NoRequest
            /\ localStorage' = localStorage
            /\ ~isHtmlRequestInProgress']_vars

====
